---- MODULE Spec2Model ----
(***************************************************************************)
(* A model of ExpenseLogic (src/tracker.py), the ledger behind the         *)
(* personal expense tracker: its transactions, category registry, budget   *)
(* table and currency symbol, the JSON file that persists them, and the    *)
(* GUI callback that submits a transaction.                                *)
(*                                                                         *)
(* A Python str is a sequence of one-character strings, so that parsing    *)
(* and formatting are computed character by character.  A Python float is  *)
(* a record [k, v]: k = "fin" with v the value in thousandths, k = "inf"   *)
(* with v the sign, or k = "nan".                                          *)
(***************************************************************************)
EXTENDS Integers, Sequences, FiniteSets, TLC

VARIABLES
    transactions,      \* self.transactions: list of transaction dicts
    categories,        \* self.categories: {"expense": [...], "income": [...]}
    budgets,           \* self.budgets: dict category -> float
    currency_symbol,   \* self.currency_symbol
    file,              \* the content of DATA_FILE on disk
    call,              \* the last call made on the object and what it returned
    faults,            \* how many file writes have failed so far
    strftime_pads      \* whether the C library's strftime pads %Y to four digits

vars == <<transactions, categories, budgets, currency_symbol, file, call,
          faults, strftime_pads>>

-----------------------------------------------------------------------------
(* Bounds of the model.                                                    *)

\* The most transactions a ledger of the model holds.
MaxTransactions == 2
\* The most writes of the file that fail in a behaviour of SpecFaulty.
MaxFaults == 1
\* The decimals the model keeps of a float: a finite float is a whole number
\* of 10^-FracDigits.
FracDigits == 3

-----------------------------------------------------------------------------
(* Characters and strings.                                                 *)

DigitChars == <<"0", "1", "2", "3", "4", "5", "6", "7", "8", "9">>

IsDigit(c) == \E i \in 1..10 : DigitChars[i] = c

DigitVal(c) == (CHOOSE i \in 1..10 : DigitChars[i] = c) - 1

DigitChar(n) == DigitChars[n + 1]

\* The code point of a character, for the characters a date string of the
\* model can hold; str comparison in Python is by code point.
Ord(c) ==
    CASE c = " " -> 32
      [] c = "-" -> 45
      [] c = "/" -> 47
      [] IsDigit(c) -> 48 + DigitVal(c)
      [] OTHER -> 120

\* a < b for Python strings: lexicographic by code point, a proper prefix first.
StrLess(a, b) ==
    \E k \in 1..(Len(b)) :
        /\ \A i \in 1..(k - 1) : i <= Len(a) /\ a[i] = b[i]
        /\ \/ k > Len(a)
           \/ k <= Len(a) /\ Ord(a[k]) < Ord(b[k])

IsSpace(c) == c = " "

RECURSIVE LStrip(_)
LStrip(s) == IF s # <<>> /\ IsSpace(Head(s)) THEN LStrip(Tail(s)) ELSE s

RECURSIVE RStrip(_)
RStrip(s) ==
    IF s # <<>> /\ IsSpace(s[Len(s)]) THEN RStrip(SubSeq(s, 1, Len(s) - 1)) ELSE s

\* str.strip()
Strip(s) == RStrip(LStrip(s))

UpperChars == <<"A", "B", "C", "D", "E", "F", "G", "H", "I", "J", "K", "L", "M",
                "N", "O", "P", "Q", "R", "S", "T", "U", "V", "W", "X", "Y", "Z">>

LowerChars == <<"a", "b", "c", "d", "e", "f", "g", "h", "i", "j", "k", "l", "m",
                "n", "o", "p", "q", "r", "s", "t", "u", "v", "w", "x", "y", "z">>

LowerChar(c) ==
    IF \E i \in 1..26 : UpperChars[i] = c
    THEN LowerChars[CHOOSE i \in 1..26 : UpperChars[i] = c]
    ELSE c

\* A faulty lower(): the string as it is.
IdentityStr(s) == s

\* str.lower()
Lower(s) == [i \in 1..Len(s) |-> LowerChar(s[i])]

\* All digits, and at least one.
IsDigits(s) == s # <<>> /\ \A i \in 1..Len(s) : IsDigit(s[i])

RECURSIVE Pow10(_)
Pow10(n) == IF n = 0 THEN 1 ELSE 10 * Pow10(n - 1)

RECURSIVE DigitsVal(_)
DigitsVal(s) ==
    IF s = <<>> THEN 0 ELSE 10 * DigitsVal(SubSeq(s, 1, Len(s) - 1)) + DigitVal(s[Len(s)])

\* n written with at least w digits, zero-padded on the left (C's %0wd).
RECURSIVE ZeroPad(_, _)
ZeroPad(n, w) ==
    IF w <= 1 /\ n < 10 THEN <<DigitChar(n)>>
    ELSE ZeroPad(n \div 10, w - 1) \o <<DigitChar(n % 10)>>

-----------------------------------------------------------------------------
(* Python floats.                                                          *)

Fin(v) == [k |-> "fin", v |-> v]
Inf(sign) == [k |-> "inf", v |-> sign]
NaN == [k |-> "nan", v |-> 0]

NoFloat == [k |-> "error", v |-> 0]

\* The text of a decimal literal: digits, optionally a point and more digits,
\* with a digit on at least one side of the point.  The value is kept in
\* thousandths; the literals of the model carry at most FracDigits decimals.
PointAt(s) == IF \E i \in 1..Len(s) : s[i] = "." THEN CHOOSE i \in 1..Len(s) : s[i] = "." ELSE 0

IsDecimal(s) ==
    LET p == PointAt(s)
        ip == IF p = 0 THEN s ELSE SubSeq(s, 1, p - 1)
        fp == IF p = 0 THEN <<>> ELSE SubSeq(s, p + 1, Len(s))
    IN  /\ ip = <<>> \/ IsDigits(ip)
        /\ fp = <<>> \/ (IsDigits(fp) /\ Len(fp) <= FracDigits)
        /\ ip # <<>> \/ fp # <<>>

DecimalVal(s) ==
    LET p == PointAt(s)
        ip == IF p = 0 THEN s ELSE SubSeq(s, 1, p - 1)
        fp == IF p = 0 THEN <<>> ELSE SubSeq(s, p + 1, Len(s))
    IN  DigitsVal(ip) * Pow10(FracDigits) + DigitsVal(fp) * Pow10(FracDigits - Len(fp))

\* float(s) for a str s: surrounding whitespace is dropped, a sign is allowed,
\* "nan", "inf" and "infinity" are read in any letter case.  NoFloat stands
\* for the ValueError.
ParseFloat(s) ==
    LET t == Strip(s)
        neg == t # <<>> /\ Head(t) = "-"
        signed == t # <<>> /\ Head(t) \in {"-", "+"}
        body == Lower(IF signed THEN Tail(t) ELSE t)
        sign == IF neg THEN -1 ELSE 1
    IN  IF body = <<"n", "a", "n">> THEN NaN
        ELSE IF body \in {<<"i", "n", "f">>, <<"i", "n", "f", "i", "n", "i", "t", "y">>}
             THEN Inf(sign)
        ELSE IF IsDecimal(body) THEN Fin(sign * DecimalVal(body))
        ELSE NoFloat

\* A faulty abs(): the float as it is.
IdentityFloat(x) == x

\* abs(x) for a float.
Abs(x) ==
    IF x.k = "nan" THEN x
    ELSE IF x.k = "inf" THEN Inf(1)
    ELSE Fin(IF x.v < 0 THEN -x.v ELSE x.v)

\* A faulty comparison: never true.
NeverLess(x, y) == FALSE

\* x < y and x > y for floats; every comparison with NaN is false.
FloatLess(x, y) ==
    /\ x.k # "nan" /\ y.k # "nan"
    /\ \/ x.k = "fin" /\ y.k = "fin" /\ x.v < y.v
       \/ x.k = "inf" /\ x.v < 0 /\ ~(y.k = "inf" /\ y.v < 0)
       \/ y.k = "inf" /\ y.v > 0 /\ ~(x.k = "inf" /\ x.v > 0)

FloatGreater(x, y) == FloatLess(y, x)

\* x == y for two float objects that are not the same object.
FloatEq(x, y) == x.k # "nan" /\ y.k # "nan" /\ x = y

-----------------------------------------------------------------------------
(* datetime.strptime(date_str, '%Y-%m-%d') and .strftime('%Y-%m-%d').       *)

NonZeroDigit(c) == IsDigit(c) /\ c # "0"

\* The text %m accepts: 1[0-2] | 0[1-9] | [1-9]
MonthField(f) ==
    \/ Len(f) = 2 /\ f[1] = "1" /\ f[2] \in {"0", "1", "2"}
    \/ Len(f) = 2 /\ f[1] = "0" /\ NonZeroDigit(f[2])
    \/ Len(f) = 1 /\ NonZeroDigit(f[1])

\* The text %d accepts: 3[01] | [12]\d | 0[1-9] | [1-9] | " "[1-9]
DayField(f) ==
    \/ Len(f) = 2 /\ f[1] = "3" /\ f[2] \in {"0", "1"}
    \/ Len(f) = 2 /\ f[1] \in {"1", "2"} /\ IsDigit(f[2])
    \/ Len(f) = 2 /\ f[1] = "0" /\ NonZeroDigit(f[2])
    \/ Len(f) = 1 /\ NonZeroDigit(f[1])
    \/ Len(f) = 2 /\ f[1] = " " /\ NonZeroDigit(f[2])

\* Whether s is \d\d\d\d-<month>-<day> with a month field of n characters
\* and nothing after the day.
MatchesFormat(s, n) ==
    /\ Len(s) >= 7 + n
    /\ IsDigits(SubSeq(s, 1, 4))
    /\ s[5] = "-"
    /\ MonthField(SubSeq(s, 6, 5 + n))
    /\ s[6 + n] = "-"
    /\ DayField(SubSeq(s, 7 + n, Len(s)))

IsLeap(y) == y % 4 = 0 /\ (y % 100 # 0 \/ y % 400 = 0)

DaysInMonth(y, m) ==
    IF m = 2 THEN (IF IsLeap(y) THEN 29 ELSE 28)
    ELSE IF m \in {4, 6, 9, 11} THEN 30
    ELSE 31

NoDate == [ok |-> FALSE, y |-> 0, m |-> 0, d |-> 0]

\* strptime: the fields as numbers when the text matches the format and
\* names a date datetime can hold (year 1 or later, a day the month has);
\* NoDate stands for the ValueError.
Strptime(s) ==
    IF \E n \in {1, 2} : MatchesFormat(s, n)
    THEN LET n == CHOOSE k \in {1, 2} : MatchesFormat(s, k)
             y == DigitsVal(SubSeq(s, 1, 4))
             m == DigitsVal(SubSeq(s, 6, 5 + n))
             d == DigitsVal(LStrip(SubSeq(s, 7 + n, Len(s))))
         IN  IF y >= 1 /\ d <= DaysInMonth(y, m)
             THEN [ok |-> TRUE, y |-> y, m |-> m, d |-> d]
             ELSE NoDate
    ELSE NoDate

\* strftime('%Y-%m-%d'): month and day are written with two digits; the year
\* is written with four digits where the C library pads %Y and with as many
\* digits as it has where it does not.
Strftime(dt, pads) ==
    ZeroPad(dt.y, IF pads THEN 4 ELSE 1) \o <<"-">> \o ZeroPad(dt.m, 2)
        \o <<"-">> \o ZeroPad(dt.d, 2)

\* A faulty line 89: the caller's string, stored without reading it.
StoredEcho(date_str, pads) == date_str

\* Line 89 of the source: the date as stored, for a date string that parses.
StoredDate(date_str, pads) == Strftime(Strptime(date_str), pads)

-----------------------------------------------------------------------------
(* list.sort(key=lambda x: x['date'], reverse=True)                         *)

\* x placed in a list already sorted descending: after every element whose
\* date is not smaller than its own, so that equal dates keep their order.
RECURSIVE InsertByDateDesc(_, _)
InsertByDateDesc(sorted, x) ==
    IF sorted = <<>> THEN <<x>>
    ELSE IF StrLess(Head(sorted).date, x.date) THEN <<x>> \o sorted
    ELSE <<Head(sorted)>> \o InsertByDateDesc(Tail(sorted), x)

RECURSIVE SortFrom(_, _)
SortFrom(sorted, rest) ==
    IF rest = <<>> THEN sorted
    ELSE SortFrom(InsertByDateDesc(sorted, Head(rest)), Tail(rest))

\* A sort that keeps one transaction of each date.
RECURSIVE DistinctDates(_, _)
DistinctDates(seen, rest) ==
    IF rest = <<>> THEN seen
    ELSE IF \E i \in 1..Len(seen) : seen[i].date = Head(rest).date
         THEN DistinctDates(seen, Tail(rest))
         ELSE DistinctDates(Append(seen, Head(rest)), Tail(rest))

SortDistinctDates(list) == SortFrom(<<>>, DistinctDates(<<>>, list))

\* The stable sort of the whole list, larger date strings first.
SortByDateDesc(list) == SortFrom(<<>>, list)

-----------------------------------------------------------------------------
(* The strings of the program and of the calls the model makes.             *)

Expense == <<"e", "x", "p", "e", "n", "s", "e">>
Income == <<"i", "n", "c", "o", "m", "e">>

Groceries == <<"G", "r", "o", "c", "e", "r", "i", "e", "s">>
Rent == <<"R", "e", "n", "t">>
Transport == <<"T", "r", "a", "n", "s", "p", "o", "r", "t">>
Dining == <<"D", "i", "n", "i", "n", "g">>
Utilities == <<"U", "t", "i", "l", "i", "t", "i", "e", "s">>
Other == <<"O", "t", "h", "e", "r">>
Salary == <<"S", "a", "l", "a", "r", "y">>
Bonus == <<"B", "o", "n", "u", "s">>
Gifts == <<"G", "i", "f", "t", "s">>

\* self.categories as __init__ sets it.
DefaultCategories ==
    [expense |-> <<Groceries, Rent, Transport, Dining, Utilities, Other>>,
     income |-> <<Salary, Bonus, Gifts, Other>>]

\* self.currency_symbol as __init__ sets it.
DefaultSymbol == <<"$">>

\* The values of self.currencies.
\* A character outside ASCII is written by the name of its code point.
CurrencySymbols ==
    {<<"$">>, <<"U+00E2", "U+201A", "U+00AC">>, <<"U+00C2", "U+00A3">>,
     <<"U+00E2", "U+201A", "U+00B9">>, <<"U+00C2", "U+00A5">>}

\* The state of a new ExpenseLogic before load_data runs.
Defaults ==
    [transactions |-> <<>>,
     categories |-> DefaultCategories,
     budgets |-> <<>>,
     currency_symbol |-> DefaultSymbol]

\* The four attributes save_data writes and load_data reads.
Mem ==
    [transactions |-> transactions,
     categories |-> categories,
     budgets |-> budgets,
     currency_symbol |-> currency_symbol]

-----------------------------------------------------------------------------
(* json.dump and json.load.                                                 *)

\* A float as JSON text: a decimal literal, or NaN, Infinity, -Infinity.
JsonFloat(x) ==
    IF x.k = "nan" THEN [lit |-> "NaN", v |-> 0]
    ELSE IF x.k = "inf" THEN [lit |-> (IF x.v < 0 THEN "-Infinity" ELSE "Infinity"), v |-> 0]
    ELSE [lit |-> "real", v |-> x.v]

JsonInt(n) == [lit |-> "int", v |-> n]

\* The Python value json.load builds for a JSON number.
FromJsonNumber(j) ==
    IF j.lit = "int" THEN j.v
    ELSE IF j.lit = "NaN" THEN NaN
    ELSE IF j.lit = "Infinity" THEN Inf(1)
    ELSE IF j.lit = "-Infinity" THEN Inf(-1)
    ELSE Fin(j.v)

JsonTransaction(t) ==
    [id |-> JsonInt(t.id), type |-> t.type, amount |-> JsonFloat(t.amount),
     category |-> t.category, description |-> t.description, date |-> t.date]

FromJsonTransaction(j) ==
    [id |-> FromJsonNumber(j.id), type |-> j.type, amount |-> FromJsonNumber(j.amount),
     category |-> j.category, description |-> j.description, date |-> j.date]

\* The document save_data builds and json.dump writes.
JsonDump(st) ==
    [transactions |-> [i \in 1..Len(st.transactions) |-> JsonTransaction(st.transactions[i])],
     categories |-> st.categories,
     budgets |-> [c \in DOMAIN st.budgets |-> JsonFloat(st.budgets[c])],
     currency_symbol |-> st.currency_symbol]

\* The four attributes load_data sets from a document that holds its four keys.
JsonLoad(doc) ==
    [transactions |-> [i \in 1..Len(doc.transactions) |-> FromJsonTransaction(doc.transactions[i])],
     categories |-> doc.categories,
     budgets |-> [c \in DOMAIN doc.budgets |-> FromJsonNumber(doc.budgets[c])],
     currency_symbol |-> doc.currency_symbol]

-----------------------------------------------------------------------------
(* DATA_FILE and save_data.                                                 *)

NoDoc == JsonDump([transactions |-> <<>>, categories |-> [expense |-> <<>>, income |-> <<>>],
                   budgets |-> <<>>, currency_symbol |-> <<>>])

\* No file; a file whose text is not a JSON document; a file holding a document.
AbsentFile == [kind |-> "absent", doc |-> NoDoc]
CorruptFile == [kind |-> "corrupt", doc |-> NoDoc]
DocFile(doc) == [kind |-> "doc", doc |-> doc]

\* Files the program did not write: JSON text that is not an object (a list,
\* a number, null); bytes that are no text in the encoding open() reads with;
\* the object with none of the four keys, {}.
NonObjectFile == [kind |-> "nonobject", doc |-> NoDoc]
UndecodableFile == [kind |-> "undecodable", doc |-> NoDoc]
EmptyObjectFile == [kind |-> "emptyobject", doc |-> NoDoc]

\* What a write of the file can do: succeed; fail in open(), which leaves the
\* file as it was; fail in json.dump after open() has truncated the file,
\* which leaves the beginning of a document.
WriteOutcomes == {"ok", "open_fails", "write_fails"}

\* A faulty save_data(): the file left as it is.
SaveNothing(st, f, w) == f

\* The file after save_data() with the attributes st, under outcome w.  The
\* IOError of a failed write is caught and printed.
SaveData(st, f, w) ==
    IF w = "ok" THEN DocFile(JsonDump(st))
    ELSE IF w = "open_fails" THEN f
    ELSE CorruptFile

\* A faulty save_data(): the IOError of a failed write goes on to the caller.
SaveLetsThrough(w) == IF w \in {"open_fails", "write_fails"} THEN "IOError" ELSE "none"

\* The exception save_data() raises under outcome w: none for a failed
\* write, since lines 61-62 catch its IOError and print it; the TypeError of
\* json.dump for a value it cannot encode ("dump_raises") is not caught.
SaveRaises(w) == IF w = "dump_raises" THEN "TypeError" ELSE "none"

\* A write may fail only while the model's bound on failures allows it.
MayWrite(w) == w \in WriteOutcomes /\ (w # "ok" => faults < MaxFaults)

\* A value json.dump cannot encode, bytes for one; it stands here as its repr.
Bytes == <<"b'x'">>

IsJson(v) == v # Bytes

\* Whether json.dump can encode the attributes st.
Serializable(st) ==
    /\ \A i \in 1..Len(st.transactions) :
          /\ IsJson(st.transactions[i].type)
          /\ IsJson(st.transactions[i].category)
          /\ IsJson(st.transactions[i].description)
    /\ \A i \in 1..Len(st.categories.expense) : IsJson(st.categories.expense[i])
    /\ \A i \in 1..Len(st.categories.income) : IsJson(st.categories.income[i])
    /\ \A c \in DOMAIN st.budgets : IsJson(c)
    /\ IsJson(st.currency_symbol)

\* The outcomes save_data() can have with the attributes st: json.dump
\* raises, after open() has truncated the file and the encoder has written
\* the beginning of the document, exactly when it meets a value it cannot
\* encode.
Writes(st, w) == IF Serializable(st) THEN MayWrite(w) ELSE w = "dump_raises"

\* faults counts the writes the disk refused.
FaultsAfter(w) == IF w \in {"ok", "dump_raises"} THEN faults ELSE faults + 1

-----------------------------------------------------------------------------
(* What a call returns.                                                     *)

\* A message: the text of the source with {} where a value is put in, and
\* the values put in.
Msg(text, arg) == [text |-> text, arg |-> arg]

NoMsg == Msg("", <<>>)

AddedMsg == Msg("Transaction added successfully.", <<>>)
InvalidMsg == Msg("Invalid amount or date format (YYYY-MM-DD).", <<>>)
\* Line 106, the message of the catch-all handler; {e} is the exception's text.
ErrorMsg == Msg("An error occurred: {e}", <<>>)

\* The record of a call: the method, its arguments, the success flag and the
\* message it returned, the outcome of the write it made ("none" when it
\* made none), the conversion that raised the ValueError it caught, and the
\* exception it let through to its caller.  `value` is what a call returns
\* that returns neither None nor a pair of flag and message.
NoValue == [kind |-> "none"]

Ret(op, args, ok, msg, wrote, where, exc) ==
    [op |-> op, args |-> args, ok |-> ok, msg |-> msg, wrote |-> wrote,
     where |-> where, exc |-> exc, value |-> NoValue]

\* The record of a call that only returns a value.
Returned(op, args, value) ==
    [Ret(op, args, TRUE, NoMsg, "none", "none", "none") EXCEPT !.value = value]

Range(list) == {list[i] : i \in 1..Len(list)}

-----------------------------------------------------------------------------
(* ExpenseLogic.__init__ and load_data.                                     *)

\* The attributes after __init__ when the file on disk is f: those of the
\* document when there is one, the defaults when the file is absent and
\* when json.load fails.
Loaded(f) == IF f.kind = "doc" THEN JsonLoad(f.doc) ELSE Defaults

\* A faulty load_data: it never writes the file.
LoadNeverSaves(f) == FALSE

\* A faulty load_data: it writes the file on every load.
LoadAlwaysSaves(f) == TRUE

\* load_data writes the file when it is absent (line 48) and when json.load
\* raises JSONDecodeError (line 45).
LoadSaves(f) == f.kind \in {"absent", "corrupt"}

\* The exception load_data lets through: data.get on a value that is no dict
\* raises AttributeError, and decoding the bytes raises UnicodeDecodeError;
\* line 43 catches neither.
LoadRaises(f) ==
    IF f.kind = "nonobject" THEN "AttributeError"
    ELSE IF f.kind = "undecodable" THEN "UnicodeDecodeError"
    ELSE "none"

Construct(f, w) ==
    /\ IF LoadSaves(f) THEN MayWrite(w) ELSE w = "none"
    /\ transactions' = Loaded(f).transactions
    /\ categories' = Loaded(f).categories
    /\ budgets' = Loaded(f).budgets
    /\ currency_symbol' = Loaded(f).currency_symbol
    /\ file' = IF LoadSaves(f) THEN SaveData(Loaded(f), f, w) ELSE f
    /\ faults' = IF LoadSaves(f) THEN FaultsAfter(w) ELSE faults
    /\ call' = IF LoadRaises(f) # "none"
               THEN Ret("__init__", <<>>, FALSE, NoMsg, "none", "none", LoadRaises(f))
               ELSE IF LoadSaves(f)
               THEN Ret("__init__", <<>>, SaveRaises(w) = "none", NoMsg, w, "none", SaveRaises(w))
               ELSE Ret("__init__", <<>>, TRUE, NoMsg, w, "none", "none")

\* The first run: no data file, and a C library of either kind.  W is the
\* set of outcomes the write of the new file can have.
FirstRun(W) ==
    /\ strftime_pads \in BOOLEAN
    /\ \E w \in W :
        /\ w # "ok" => 0 < MaxFaults
        /\ transactions = Defaults.transactions
        /\ categories = Defaults.categories
        /\ budgets = Defaults.budgets
        /\ currency_symbol = Defaults.currency_symbol
        /\ file = SaveData(Defaults, AbsentFile, w)
        /\ faults = (IF w = "ok" THEN 0 ELSE 1)
        /\ call = Ret("__init__", <<>>, SaveRaises(w) = "none", NoMsg, w, "none", SaveRaises(w))

\* The program is started again: a new ExpenseLogic is built from the file.
Restart(W) ==
    /\ \E w \in W \cup {"none"} : Construct(file, w)
    /\ UNCHANGED strftime_pads

-----------------------------------------------------------------------------
(* ExpenseLogic.add_transaction.                                            *)

\* A faulty id: the count of transactions, without the one added.
IdZeroBased(list) == Len(list)

\* Line 92: the id of the next transaction.
NextId(list) == Len(list) + 1

\* Lines 91-98: the dict add_transaction builds.
NewTransaction(list, trans_type, amount, category, description, date_str, pads) ==
    [id |-> NextId(list),
     type |-> trans_type,
     amount |-> Abs(ParseFloat(amount)),
     category |-> category,
     description |-> description,
     date |-> StoredDate(date_str, pads)]

RaisesDateFirst(amount, date_str) ==
    IF ~Strptime(date_str).ok THEN "strptime"
    ELSE IF ParseFloat(amount) = NoFloat THEN "float"
    ELSE "none"

\* Which conversion of lines 87-89 raises ValueError: float() is called
\* first, strptime() only when float() returned.
Raises(amount, date_str) ==
    IF ParseFloat(amount) = NoFloat THEN "float"
    ELSE IF ~Strptime(date_str).ok THEN "strptime"
    ELSE "none"

\* Lines 102-104: the pair add_transaction returns.
AddTransactionResult(amount, date_str) ==
    IF Raises(amount, date_str) # "none"
    THEN [ok |-> FALSE, msg |-> InvalidMsg]
    ELSE [ok |-> TRUE, msg |-> AddedMsg]

\* The call as method `op` names it (the GUI callback reports under its own
\* name), with write outcome w.
AddTransactionAs(op, trans_type, amount, category, description, date_str, w) ==
    LET args == <<trans_type, amount, category, description, date_str>>
        where == Raises(amount, date_str)
        result == AddTransactionResult(amount, date_str)
    IN  IF where # "none"
        THEN /\ w = "none"
             /\ call' = Ret(op, args, result.ok, result.msg, "none", where, "none")
             /\ UNCHANGED <<transactions, categories, budgets, currency_symbol,
                            file, faults, strftime_pads>>
        ELSE /\ Len(transactions) < MaxTransactions
             /\ transactions' =
                    SortByDateDesc(Append(transactions,
                        NewTransaction(transactions, trans_type, amount, category,
                                       description, date_str, strftime_pads)))
             /\ Writes([Mem EXCEPT !.transactions = transactions'], w)
             /\ file' = SaveData([Mem EXCEPT !.transactions = transactions'], file, w)
             /\ faults' = FaultsAfter(w)
             /\ call' = IF SaveRaises(w) = "none"
                        THEN Ret(op, args, result.ok, result.msg, w, "none", "none")
                        ELSE Ret(op, args, FALSE, ErrorMsg, w, "none", "none")
             /\ UNCHANGED <<categories, budgets, currency_symbol, strftime_pads>>

-----------------------------------------------------------------------------
(* ExpenseLogic.format_currency: f"{self.currency_symbol}{amount:.2f}"      *)

Scale == Pow10(FracDigits)

RECURSIVE Pow2(_)
Pow2(n) == IF n = 0 THEN 1 ELSE 2 * Pow2(n - 1)

\* 2^n modulo Scale.
RECURSIVE Pow2Mod(_)
Pow2Mod(n) == IF n = 0 THEN 1 ELSE (2 * Pow2Mod(n - 1)) % Scale

\* The least n with v * 2^n >= Scale, for 0 < v < Scale.
RECURSIVE ShiftUp(_, _)
ShiftUp(v, n) == IF v * Pow2(n) >= Scale THEN n ELSE ShiftUp(v, n + 1)

\* The greatest p with Scale * 2^p <= v, for v >= Scale.
RECURSIVE ShiftDown(_, _)
ShiftDown(v, p) == IF Scale * Pow2(p + 1) <= v THEN ShiftDown(v, p + 1) ELSE p

\* Whether the double nearest to v / Scale lies above it (v > 0): with e the
\* exponent that brings v / Scale into [2^52, 2^53), the double is the
\* nearest integer to v * 2^e / Scale, and it lies above when the remainder
\* of v * 2^e by Scale is more than half of Scale.
DoubleAbove(v) ==
    LET e == IF v >= Scale THEN 52 - ShiftDown(v, 0) ELSE 52 + ShiftUp(v, 1)
    IN  2 * (((v % Scale) * Pow2Mod(e)) % Scale) > Scale

\* v / Scale in hundredths as '.2f' rounds it (v >= 0): to the nearer
\* hundredth of the double that holds v / Scale, a double exactly half way
\* going to the even one.
Hundredths(v) ==
    LET unit == Scale \div 100
        h == v \div unit
        rem == v % unit
        exact == (v * Pow2(FracDigits)) % Scale = 0
        up == IF 2 * rem # unit THEN 2 * rem > unit
              ELSE IF exact THEN h % 2 = 1
              ELSE DoubleAbove(v)
    IN  IF up THEN h + 1 ELSE h

\* n in decimal, without padding.
Decimal(n) == ZeroPad(n, 1)

\* format(amount, '.2f')
Format2f(x) ==
    IF x.k = "nan" THEN <<"n", "a", "n">>
    ELSE IF x.k = "inf" THEN (IF x.v < 0 THEN <<"-">> ELSE <<>>) \o <<"i", "n", "f">>
    ELSE LET h == Hundredths(IF x.v < 0 THEN -x.v ELSE x.v)
         IN  (IF x.v < 0 THEN <<"-">> ELSE <<>>)
                 \o Decimal(h \div 100) \o <<".">> \o ZeroPad(h % 100, 2)

\* A faulty format_currency: the minus sign stands before the symbol.
FormatCurrencySignFirst(symbol, amount) ==
    IF amount.k = "fin" /\ amount.v < 0
    THEN <<"-">> \o symbol \o Format2f(Abs(amount))
    ELSE symbol \o Format2f(amount)

FormatCurrency(symbol, amount) == symbol \o Format2f(amount)

-----------------------------------------------------------------------------
(* ExpenseLogic.add_category, set_budget and set_currency.                  *)

IsUpper(c) == \E i \in 1..26 : UpperChars[i] = c
IsLower(c) == \E i \in 1..26 : LowerChars[i] = c
IsCased(c) == IsUpper(c) \/ IsLower(c)

UpperChar(c) ==
    IF IsLower(c) THEN UpperChars[CHOOSE i \in 1..26 : LowerChars[i] = c] ELSE c

\* str.title(): a letter that follows a letter is lowered, any other letter
\* is raised.
Title(s) ==
    [i \in 1..Len(s) |->
        IF i > 1 /\ IsCased(s[i - 1]) THEN LowerChar(s[i]) ELSE UpperChar(s[i])]

\* A faulty lookup: the list of the other type.
CategoryListOfOther(cats, trans_type) ==
    IF trans_type = Expense THEN cats.income ELSE cats.expense

\* self.categories[trans_type], for the two keys the dict holds.
CategoryList(cats, trans_type) ==
    IF trans_type = Expense THEN cats.expense ELSE cats.income

HasCategoryKey(trans_type) == trans_type \in {Expense, Income}

\* get_categories: self.categories.get(trans_type, [])
GetCategories(cats, trans_type) ==
    IF HasCategoryKey(trans_type) THEN CategoryList(cats, trans_type) ELSE <<>>

\* A faulty line 116: the name goes on both lists.
WithCategoryOnBoth(cats, trans_type, name) ==
    [expense |-> Append(cats.expense, name), income |-> Append(cats.income, name)]

WithCategory(cats, trans_type, name) ==
    IF trans_type = Expense
    THEN [cats EXCEPT !.expense = Append(@, name)]
    ELSE [cats EXCEPT !.income = Append(@, name)]

AddCategory(new_category, trans_type, w) ==
    LET name == Title(Strip(new_category))
        args == <<new_category, trans_type>>
    IN  IF name = <<>>
        THEN /\ w = "none"
             /\ call' = Ret("add_category", args, FALSE,
                            Msg("Category name cannot be empty.", <<>>), "none", "none", "none")
             /\ UNCHANGED <<transactions, categories, budgets, currency_symbol,
                            file, faults, strftime_pads>>
        ELSE IF ~HasCategoryKey(trans_type)
        THEN /\ w = "none"
             /\ call' = Ret("add_category", args, FALSE, NoMsg, "none", "none", "KeyError")
             /\ UNCHANGED <<transactions, categories, budgets, currency_symbol,
                            file, faults, strftime_pads>>
        ELSE IF name \in Range(CategoryList(categories, trans_type))
        THEN /\ w = "none"
             /\ call' = Ret("add_category", args, FALSE,
                            Msg("Category already exists.", <<>>), "none", "none", "none")
             /\ UNCHANGED <<transactions, categories, budgets, currency_symbol,
                            file, faults, strftime_pads>>
        ELSE /\ categories' = WithCategory(categories, trans_type, name)
             /\ Writes([Mem EXCEPT !.categories = categories'], w)
             /\ file' = SaveData([Mem EXCEPT !.categories = categories'], file, w)
             /\ faults' = FaultsAfter(w)
             /\ call' = IF SaveRaises(w) = "none"
                        THEN Ret("add_category", args, TRUE,
                                 Msg("Category '{}' added.", <<name>>), w, "none", "none")
                        ELSE Ret("add_category", args, FALSE, NoMsg, w, "none", SaveRaises(w))
             /\ UNCHANGED <<transactions, budgets, currency_symbol, strftime_pads>>

\* A faulty line 134: the table holds the new entry alone.
WithBudgetAlone(table, category, x) == category :> x

\* Line 134: self.budgets[category] = amount
WithBudget(table, category, x) == (category :> x) @@ table

\* get_budgets: the dict itself.
GetBudgets(table) == table

SetBudget(category, amount, w) ==
    LET x == ParseFloat(amount)
        args == <<category, amount>>
    IN  IF x = NoFloat
        THEN /\ w = "none"
             /\ call' = Ret("set_budget", args, FALSE, Msg("Invalid amount.", <<>>),
                            "none", "float", "none")
             /\ UNCHANGED <<transactions, categories, budgets, currency_symbol,
                            file, faults, strftime_pads>>
        ELSE IF FloatLess(x, Fin(0))
        THEN /\ w = "none"
             /\ call' = Ret("set_budget", args, FALSE,
                            Msg("Budget amount cannot be negative.", <<>>),
                            "none", "none", "none")
             /\ UNCHANGED <<transactions, categories, budgets, currency_symbol,
                            file, faults, strftime_pads>>
        ELSE /\ budgets' = WithBudget(budgets, category, x)
             /\ Writes([Mem EXCEPT !.budgets = budgets'], w)
             /\ file' = SaveData([Mem EXCEPT !.budgets = budgets'], file, w)
             /\ faults' = FaultsAfter(w)
             /\ call' = IF SaveRaises(w) = "none"
                        THEN Ret("set_budget", args, TRUE,
                                 Msg("Budget for {} set to {}.",
                                     <<category, FormatCurrency(currency_symbol, x)>>),
                                 w, "none", "none")
                        ELSE Ret("set_budget", args, FALSE, NoMsg, w, "none", SaveRaises(w))
             /\ UNCHANGED <<transactions, categories, currency_symbol, strftime_pads>>

\* A faulty set_currency: the budgets go with the old symbol.
SetCurrencyAndReset(new_symbol, w) ==
    /\ currency_symbol' = new_symbol
    /\ budgets' = <<>>
    /\ Writes([Mem EXCEPT !.currency_symbol = new_symbol, !.budgets = <<>>], w)
    /\ file' = SaveData([Mem EXCEPT !.currency_symbol = new_symbol, !.budgets = <<>>],
                        file, w)
    /\ faults' = FaultsAfter(w)
    /\ call' = Ret("set_currency", <<new_symbol>>, SaveRaises(w) = "none", NoMsg, w,
                   "none", SaveRaises(w))
    /\ UNCHANGED <<transactions, categories, strftime_pads>>

\* set_currency returns None; the record of the call carries no message.
SetCurrency(new_symbol, w) ==
    /\ currency_symbol' = new_symbol
    /\ Writes([Mem EXCEPT !.currency_symbol = new_symbol], w)
    /\ file' = SaveData([Mem EXCEPT !.currency_symbol = new_symbol], file, w)
    /\ faults' = FaultsAfter(w)
    /\ call' = Ret("set_currency", <<new_symbol>>, SaveRaises(w) = "none", NoMsg, w,
                   "none", SaveRaises(w))
    /\ UNCHANGED <<transactions, categories, budgets, strftime_pads>>

-----------------------------------------------------------------------------
(* ExpenseTrackerApp.submit_transaction, the GUI callback.                  *)

\* The values of the Type segmented button.
TypeToggles == {<<"E", "x", "p", "e", "n", "s", "e">>, <<"I", "n", "c", "o", "m", "e">>}

NoCategoriesFound ==
    <<"N", "o", " ", "c", "a", "t", "e", "g", "o", "r", "i", "e", "s", " ",
      "f", "o", "u", "n", "d">>

\* The form: the toggle, the i-th entry of the category menu (the menu holds
\* get_categories of the lowered toggle; with no category to show, the
\* category variable holds a notice), and the three text entries.  The
\* message returned is the text the status label is set to.
SubmitTransaction(toggle, i, amount, description, date_str, w) ==
    LET trans_type == Lower(toggle)
        menu == GetCategories(categories, trans_type)
        category == IF menu = <<>> THEN NoCategoriesFound ELSE menu[i]
    IN  /\ menu # <<>> => i \in 1..Len(menu)
        /\ AddTransactionAs("submit_transaction", trans_type, amount, category,
                            description, date_str, w)

-----------------------------------------------------------------------------
(* ExpenseLogic.get_monthly_report_data.                                    *)

\* x + y, -x and x - y for floats.  Finite values are added exactly, in
\* units of 1 / Scale; the rounding of the double sum is left out.
FloatAdd(x, y) ==
    IF x.k = "nan" \/ y.k = "nan" THEN NaN
    ELSE IF x.k = "inf" THEN (IF y.k = "inf" /\ y.v # x.v THEN NaN ELSE x)
    ELSE IF y.k = "inf" THEN y
    ELSE Fin(x.v + y.v)

FloatNeg(x) ==
    IF x.k = "nan" THEN x
    ELSE IF x.k = "inf" THEN Inf(-x.v)
    ELSE Fin(-x.v)

FloatSub(x, y) == FloatAdd(x, FloatNeg(y))

\* str.startswith
StartsWith(s, prefix) ==
    Len(prefix) <= Len(s) /\ SubSeq(s, 1, Len(prefix)) = prefix

\* now.strftime('%Y-%m'), with the year as the C library writes it.
CurrentMonthStr(now, pads) ==
    ZeroPad(now.y, IF pads THEN 4 ELSE 1) \o <<"-">> \o ZeroPad(now.m, 2)

\* A faulty line 146: no transaction is left out.
AllTransactions(list, now, pads) == list

\* Line 146: the transactions whose date starts with the current month.
MonthTransactions(list, now, pads) ==
    SelectSeq(list, LAMBDA t : StartsWith(t.date, CurrentMonthStr(now, pads)))

\* Lines 148-149: sum() of the amounts of one type, from the int 0 on and in
\* the order of the list.  The int 0 is written as the float 0.
RECURSIVE SumFrom(_, _, _)
SumFrom(acc, list, trans_type) ==
    IF list = <<>> THEN acc
    ELSE SumFrom(IF Head(list).type = trans_type
                 THEN FloatAdd(acc, Head(list).amount) ELSE acc,
                 Tail(list), trans_type)

SumOfType(list, trans_type) == SumFrom(Fin(0), list, trans_type)

\* A faulty line 154: the transactions of every type are counted.
RECURSIVE SpendingOfEveryType(_, _)
SpendingOfEveryType(table, list) ==
    IF list = <<>> THEN table
    ELSE LET t == Head(list)
             old == IF t.category \in DOMAIN table THEN table[t.category] ELSE Fin(0)
         IN  SpendingOfEveryType((t.category :> FloatAdd(old, t.amount)) @@ table, Tail(list))

\* Lines 152-155: the defaultdict(float) after the loop; a key that was
\* missing starts from 0.0.
RECURSIVE SpendingByCategory(_, _)
SpendingByCategory(table, list) ==
    IF list = <<>> THEN table
    ELSE LET t == Head(list)
             old == IF t.category \in DOMAIN table THEN table[t.category] ELSE Fin(0)
         IN  SpendingByCategory(IF t.type = Expense
                                THEN (t.category :> FloatAdd(old, t.amount)) @@ table
                                ELSE table,
                                Tail(list))

MonthNames ==
    <<"January", "February", "March", "April", "May", "June", "July", "August",
      "September", "October", "November", "December">>

\* now.strftime('%B %Y'): the name of the month and the year.
MonthName(now, pads) == <<MonthNames[now.m], ZeroPad(now.y, IF pads THEN 4 ELSE 1)>>

\* The dict get_monthly_report_data returns when the clock reads `now`.
MonthlyReport(list, now, pads) ==
    LET month_transactions == MonthTransactions(list, now, pads)
        total_income == SumOfType(month_transactions, Income)
        total_expense == SumOfType(month_transactions, Expense)
    IN  [kind |-> "report",
         month_name |-> MonthName(now, pads),
         total_income |-> total_income,
         total_expense |-> total_expense,
         net_savings |-> FloatSub(total_income, total_expense),
         spending_by_category |-> SpendingByCategory(<<>>, month_transactions)]

\* The call, with the reading of the clock in the place of an argument.
GetMonthlyReportData(now) ==
    /\ call' = Returned("get_monthly_report_data", <<now>>,
                        MonthlyReport(transactions, now, strftime_pads))
    /\ UNCHANGED <<transactions, categories, budgets, currency_symbol, file, faults,
                   strftime_pads>>

\* format_currency called with the float `amount`.
FormatCurrencyCall(amount) ==
    /\ call' = Returned("format_currency", <<amount>>,
                        [kind |-> "text", text |-> FormatCurrency(currency_symbol, amount)])
    /\ UNCHANGED <<transactions, categories, budgets, currency_symbol, file, faults,
                   strftime_pads>>

-----------------------------------------------------------------------------
(* ExpenseTrackerApp.show_dashboard_frame and create_pie_chart.             *)

\* create_pie_chart: line 284 enters the block that draws (ax.pie with one
\* wedge for each value, the legend with one entry for each key) when
\* `not spending_data`, that is when the dict is empty.
PieChart(spending_data) ==
    IF DOMAIN spending_data = {}
    THEN [pie |-> TRUE, wedges |-> DOMAIN spending_data, legend |-> DOMAIN spending_data]
    ELSE [pie |-> FALSE, wedges |-> {}, legend |-> {}]

\* What the dashboard shows when the clock reads `now`: the title, the three
\* cards and the chart.
Dashboard(list, symbol, now, pads) ==
    LET report_data == MonthlyReport(list, now, pads)
    IN  [kind |-> "dashboard",
         title |-> report_data.month_name,
         income |-> FormatCurrency(symbol, report_data.total_income),
         expense |-> FormatCurrency(symbol, report_data.total_expense),
         net |-> FormatCurrency(symbol, report_data.net_savings),
         net_green |-> ~FloatLess(report_data.net_savings, Fin(0)),
         spending |-> report_data.spending_by_category,
         chart |-> PieChart(report_data.spending_by_category)]

ShowDashboardFrame(now) ==
    /\ call' = Returned("show_dashboard_frame", <<now>>,
                        Dashboard(transactions, currency_symbol, now, strftime_pads))
    /\ UNCHANGED <<transactions, categories, budgets, currency_symbol, file, faults,
                   strftime_pads>>

-----------------------------------------------------------------------------
(* ExpenseTrackerApp.set_new_budget, the callback of the Set Budget button. *)

NoExpenseCategories ==
    <<"N", "o", " ", "e", "x", "p", "e", "n", "s", "e", " ", "c", "a", "t", "e", "g",
      "o", "r", "i", "e", "s">>

\* The settings view as the user leaves it: the i-th entry of the budget
\* category menu selected (the menu holds get_categories("expense"), or a
\* notice when there is none) and `amount` typed into the entry.  Line 578
\* reads the name `category`, which neither set_new_budget nor the module
\* binds: the NameError ends the callback before it reads the menu or the
\* entry, calls set_budget or sets the status label.
SetNewBudget(i, amount) ==
    LET menu == GetCategories(categories, Expense)
        selected == IF menu = <<>> THEN NoExpenseCategories ELSE menu[i]
    IN  /\ menu # <<>> => i \in 1..Len(menu)
        /\ call' = Ret("set_new_budget", <<selected, amount>>, FALSE, NoMsg,
                       "none", "none", "NameError")
        /\ UNCHANGED <<transactions, categories, budgets, currency_symbol, file,
                       faults, strftime_pads>>

-----------------------------------------------------------------------------
(* The calls the model makes.                                               *)

Pets == <<"P", "e", "t", "s">>
Transfer == <<"t", "r", "a", "n", "s", "f", "e", "r">>

Jan5 == <<"2", "0", "2", "4", "-", "0", "1", "-", "0", "5">>
Jan5Short == <<"2", "0", "2", "4", "-", "1", "-", "5">>
Feb29 == <<"2", "0", "2", "4", "-", "0", "2", "-", "2", "9">>
Feb29NoLeap == <<"2", "0", "2", "3", "-", "0", "2", "-", "2", "9">>
Year999 == <<"0", "9", "9", "9", "-", "1", "2", "-", "3", "1">>
Month13 == <<"2", "0", "2", "4", "-", "1", "3", "-", "4", "0">>
DayFirst == <<"0", "1", "-", "0", "1", "-", "2", "0", "2", "4">>
Jan5Trailing == <<"2", "0", "2", "4", "-", "0", "1", "-", "0", "5", " ">>

Minus2p5 == <<"-", "2", ".", "5">>
Five == <<" ", "5">>
Zero == <<"0">>
NanText == <<"n", "a", "n">>
Abc == <<"a", "b", "c">>
Pay == <<"p", "a", "y">>

\* (trans_type, amount, category, description, date_str) of add_transaction.
AddInputs ==
    {<<Expense, Minus2p5, Groceries, <<>>, Jan5>>,
     <<Income, Five, Salary, Pay, Jan5Short>>,
     <<Expense, Zero, Pets, <<>>, Feb29>>,
     <<Transfer, NanText, Rent, <<>>, Year999>>,
     <<Expense, Abc, Rent, <<>>, Jan5>>,
     <<Expense, Five, Rent, <<>>, Month13>>,
     <<Expense, Five, Rent, <<>>, DayFirst>>,
     <<Income, Five, Salary, <<>>, Feb29NoLeap>>,
     <<Expense, Five, Rent, <<>>, Jan5Trailing>>,
     <<Expense, <<>>, Rent, <<>>, <<>>>>}

\* (amount, description, date) typed into the form.
FormInputs ==
    {<<Minus2p5, <<>>, Jan5>>,
     <<Abc, <<>>, Month13>>}

\* (new_category, trans_type) of add_category.
CategoryInputs ==
    {<<<<"p", "e", "t", "s">>, Expense>>,
     <<<<" ", "r", "E", "N", "T", " ">>, Expense>>,
     <<<<" ">>, Income>>,
     <<Pets, Transfer>>}

\* (category, amount) of set_budget.
BudgetInputs ==
    {<<Rent, <<"5", "0", "0">>>>,
     <<Rent, <<"-", "5">>>>,
     <<Rent, Abc>>}

\* new_symbol of set_currency.
SymbolInputs == {<<"U+20AC">>}

\* The form as the user leaves it: the category menu on its first entry,
\* where update_categories_dropdown puts it.
MenuPick == {1}

\* The inputs of the four operations and of the form.
Inputs ==
    [add |-> AddInputs, form |-> FormInputs, category |-> CategoryInputs,
     budget |-> BudgetInputs, symbol |-> SymbolInputs]

\* Fewer of them, for the program on a disk whose writes can fail: of each
\* operation a call that succeeds, and of each but the form and set_currency
\* a call that fails.
FewInputs ==
    [add |-> {<<Expense, Minus2p5, Groceries, <<>>, Jan5>>,
              <<Transfer, NanText, Rent, <<>>, Year999>>,
              <<Expense, Abc, Rent, <<>>, Jan5>>},
     form |-> {<<Minus2p5, <<>>, Jan5>>},
     category |-> {<<<<"p", "e", "t", "s">>, Expense>>, <<<<" ">>, Income>>},
     budget |-> {<<Rent, <<"5", "0", "0">>>>, <<Rent, <<"-", "5">>>>},
     symbol |-> SymbolInputs]

\* Calls of the settings view and others like them: names that differ from a
\* name of the list in case and in the space around them, an empty name and
\* a name of spaces, the same name for both lists, a type that is no key of
\* the categories; budgets that replace one another, for two categories, and
\* amounts that are negative, no number, or not a number that compares.
SettingsInputs ==
    [add |-> {<<Expense, Minus2p5, Groceries, <<>>, Jan5>>,
              <<Expense, Abc, Rent, <<>>, Jan5>>},
     form |-> {<<Minus2p5, <<>>, Jan5>>},
     category |-> {<<<<"p", "e", "t", "s">>, Expense>>,
                   <<<<"P", "E", "T", "S", " ">>, Expense>>,
                   <<<<"p", "e", "t", "s">>, Income>>,
                   <<<<" ", "r", "E", "N", "T", " ">>, Expense>>,
                   <<<<" ">>, Income>>,
                   <<<<>>, Expense>>,
                   <<<<" ">>, Transfer>>,
                   <<Pets, Transfer>>},
     budget |-> {<<Rent, <<"5", "0", "0">>>>,
                 <<Rent, NanText>>,
                 <<Dining, Zero>>,
                 <<Rent, <<"-", "5">>>>,
                 <<Rent, <<"-", "i", "n", "f">>>>,
                 <<Rent, Abc>>,
                 <<Rent, <<>>>>},
     symbol |-> SymbolInputs]

\* Transactions of two months and two years, of the three types, with
\* amounts that are finite and infinite, for a category the lists hold and
\* one they do not hold.
InfText == <<"i", "n", "f">>
Jan5Of2023 == <<"2", "0", "2", "3", "-", "0", "1", "-", "0", "5">>

ReportInputs ==
    [add |-> {<<Income, Five, Salary, Pay, Jan5>>,
              <<Expense, Minus2p5, Rent, <<>>, Jan5>>,
              <<Expense, Five, Pets, <<>>, Jan5>>,
              <<Expense, Five, Rent, <<>>, Feb29>>,
              <<Expense, InfText, Rent, <<>>, Jan5>>,
              <<Income, InfText, Salary, <<>>, Jan5>>,
              <<Transfer, Five, Rent, <<>>, Jan5>>,
              <<Expense, Five, Rent, <<>>, Jan5Of2023>>},
     form |-> {},
     category |-> {},
     budget |-> {},
     symbol |-> {<<"U+20AC">>}]

\* The readings of the clock: the two months of the transactions.
Clock == {[y |-> 2024, m |-> 1], [y |-> 2024, m |-> 2]}

\* Amounts format_currency is called with: the sums and differences of the
\* report, and values with more than two decimals, above and below zero.
FormatInputs ==
    {Fin(0), Fin(-12345), Fin(2675), Fin(125), Fin(1234567891), Fin(-1), Inf(1), Inf(-1), NaN}

\* Calls that name what the program does not know: a category outside the
\* lists, for a transaction and for a budget, and a symbol outside the table
\* of currencies beside one of the table.
FrameInputs ==
    [add |-> {<<Expense, Five, Pets, <<>>, Jan5>>,
              <<Income, Minus2p5, Salary, <<>>, Feb29>>,
              <<Expense, Abc, Rent, <<>>, Jan5>>},
     form |-> {},
     category |-> {<<<<"p", "e", "t", "s">>, Income>>, <<<<" ">>, Expense>>},
     budget |-> {<<Pets, <<"5", "0", "0">>>>, <<Utilities, Zero>>, <<Rent, <<"-", "5">>>>},
     symbol |-> {<<"U+20AC">>, <<"U+00C2", "U+00A3">>}]

\* What is typed into the budget entry of the settings view.
BudgetEntries == {<<"5", "0", "0">>, Zero, Abc}

\* Calls with a description that is no str.
AnyInputs ==
    [add |-> {<<Expense, Five, Rent, Bytes, Feb29>>,
              <<Expense, Minus2p5, Groceries, <<>>, Jan5>>,
              <<Expense, Abc, Rent, <<>>, Jan5>>},
     form |-> {},
     category |-> {<<<<"p", "e", "t", "s">>, Expense>>},
     budget |-> {<<Rent, <<"5", "0", "0">>>>},
     symbol |-> {<<"U+20AC">>}]

\* Each action with I the inputs it draws from and W the set of outcomes a
\* write of the file can have.
DoAddTransaction(I, W) ==
    \E in \in I.add, w \in W \cup {"none"} :
        AddTransactionAs("add_transaction", in[1], in[2], in[3], in[4], in[5], w)

DoSubmitTransaction(I, W) ==
    \E toggle \in TypeToggles, i \in MenuPick, in \in I.form, w \in W \cup {"none"} :
        SubmitTransaction(toggle, i, in[1], in[2], in[3], w)

DoAddCategory(I, W) ==
    \E in \in I.category, w \in W \cup {"none"} : AddCategory(in[1], in[2], w)

DoSetBudget(I, W) ==
    \E in \in I.budget, w \in W \cup {"none"} : SetBudget(in[1], in[2], w)

DoSetCurrency(I, W) ==
    \E sym \in I.symbol, w \in W : SetCurrency(sym, w)

\* The program on a disk whose writes succeed.
Init == FirstRun({"ok"})

Next ==
    \/ DoAddTransaction(Inputs, {"ok"})
    \/ DoSubmitTransaction(Inputs, {"ok"})
    \/ DoAddCategory(Inputs, {"ok"})
    \/ DoSetBudget(Inputs, {"ok"})
    \/ DoSetCurrency(Inputs, {"ok"})
    \/ Restart({"ok"})

Spec == Init /\ [][Next]_vars

\* The program on a disk whose writes can fail.
InitFaulty == FirstRun(WriteOutcomes)

NextFaulty ==
    \/ DoAddTransaction(FewInputs, WriteOutcomes)
    \/ DoSubmitTransaction(FewInputs, WriteOutcomes)
    \/ DoAddCategory(FewInputs, WriteOutcomes)
    \/ DoSetBudget(FewInputs, WriteOutcomes)
    \/ DoSetCurrency(FewInputs, WriteOutcomes)
    \/ Restart(WriteOutcomes)

SpecFaulty == InitFaulty /\ [][NextFaulty]_vars

\* The program with more calls of add_category and set_budget, and fewer of
\* add_transaction, on a disk whose writes succeed.
NextSettings ==
    \/ DoAddTransaction(SettingsInputs, {"ok"})
    \/ DoSubmitTransaction(SettingsInputs, {"ok"})
    \/ DoAddCategory(SettingsInputs, {"ok"})
    \/ DoSetBudget(SettingsInputs, {"ok"})
    \/ DoSetCurrency(SettingsInputs, {"ok"})
    \/ Restart({"ok"})

SpecSettings == Init /\ [][NextSettings]_vars

\* Someone else puts another file in the place of the data file, or removes it.
ForeignFiles == {AbsentFile, CorruptFile, NonObjectFile, UndecodableFile, EmptyObjectFile}

ReplaceFile(F) ==
    /\ file' \in F \ {file}
    /\ UNCHANGED <<transactions, categories, budgets, currency_symbol, call, faults,
                   strftime_pads>>

\* There is an ExpenseLogic to call: the last __init__ returned.
Running == ~(call.op = "__init__" /\ call.exc # "none")

\* The program on a disk whose writes succeed, beside someone who replaces
\* the data file.
NextForeign ==
    \/ Running /\ DoAddTransaction(FewInputs, {"ok"})
    \/ Running /\ DoSubmitTransaction(FewInputs, {"ok"})
    \/ Running /\ DoAddCategory(FewInputs, {"ok"})
    \/ Running /\ DoSetBudget(FewInputs, {"ok"})
    \/ Running /\ DoSetCurrency(FewInputs, {"ok"})
    \/ Restart({"ok"})
    \/ ReplaceFile(ForeignFiles)

SpecForeign == Init /\ [][NextForeign]_vars

\* The program with its dashboard, on a disk whose writes succeed.
NextReport ==
    \/ DoAddTransaction(ReportInputs, {"ok"})
    \/ DoSetCurrency(ReportInputs, {"ok"})
    \/ \E now \in Clock : GetMonthlyReportData(now)
    \/ \E now \in Clock : ShowDashboardFrame(now)
    \/ \E amount \in FormatInputs : FormatCurrencyCall(amount)
    \/ Restart({"ok"})

SpecReport == Init /\ [][NextReport]_vars

\* The program and its settings view, on a disk whose writes succeed.
NextFrame ==
    \/ DoAddTransaction(FrameInputs, {"ok"})
    \/ DoAddCategory(FrameInputs, {"ok"})
    \/ DoSetBudget(FrameInputs, {"ok"})
    \/ DoSetCurrency(FrameInputs, {"ok"})
    \/ \E i \in MenuPick \cup {2}, amount \in BudgetEntries : SetNewBudget(i, amount)
    \/ Restart({"ok"})

SpecFrame == Init /\ [][NextFrame]_vars

\* The program called with values of any type, on a disk whose writes
\* succeed.
NextAnyArgs ==
    \/ DoAddTransaction(AnyInputs, {"ok", "dump_raises"})
    \/ DoAddCategory(AnyInputs, {"ok", "dump_raises"})
    \/ DoSetBudget(AnyInputs, {"ok", "dump_raises"})
    \/ DoSetCurrency(AnyInputs, {"ok", "dump_raises"})
    \/ Restart({"ok"})

SpecAnyArgs == Init /\ [][NextAnyArgs]_vars

-----------------------------------------------------------------------------
(* Notions the properties below are stated with.                            *)

AddOps == {"add_transaction", "submit_transaction"}

MutatingOps == AddOps \cup {"add_category", "set_budget", "set_currency"}

\* list without its i-th element.
RemoveAt(list, i) == SubSeq(list, 1, i - 1) \o SubSeq(list, i + 1, Len(list))

\* The absolute value of a float, written out.
Magnitude(x) ==
    CASE x.k = "fin" -> [k |-> "fin", v |-> (IF x.v < 0 THEN 0 - x.v ELSE x.v)]
      [] x.k = "inf" -> [k |-> "inf", v |-> 1]
      [] OTHER -> x

\* The transaction the last add stored: the one with the greatest id.
Newest(list) == list[CHOOSE i \in 1..Len(list) : list[i].id = Len(list)]

\* The day a stored date names, as year * 10000 + month * 100 + day: the
\* year is the text before the first dash, month and day are the two pairs
\* of digits after it.
FirstDash(s) == CHOOSE i \in 1..Len(s) : s[i] = "-" /\ \A j \in 1..(i - 1) : s[j] # "-"

CalendarDay(s) ==
    LET p == FirstDash(s)
    IN  DigitsVal(SubSeq(s, 1, p - 1)) * 10000
            + DigitsVal(SubSeq(s, p + 1, p + 2)) * 100
            + DigitsVal(SubSeq(s, p + 4, p + 5))

\* A date string that ends in -MM-DD, both on two digits, after a year in
\* digits.
TwoDigitMonthAndDay(s) ==
    /\ \E i \in 1..Len(s) : s[i] = "-"
    /\ LET p == FirstDash(s)
       IN  /\ p > 1
           /\ Len(s) = p + 5
           /\ s[p + 3] = "-"
           /\ \A i \in (1..(p - 1)) \cup {p + 1, p + 2, p + 4, p + 5} : IsDigit(s[i])

\* A date string in zero-padded YYYY-MM-DD form.
ZeroPaddedForm(s) ==
    /\ Len(s) = 10
    /\ \A i \in {1, 2, 3, 4, 6, 7, 9, 10} : IsDigit(s[i])
    /\ s[5] = "-" /\ s[8] = "-"

\* The ways to write a month or a day that strptime reads: two digits, or
\* one digit below ten; a day below ten also after a space.
SpellingsOfMonth(m) == {ZeroPad(m, 2), ZeroPad(m, 1)}
SpellingsOfDay(d) == {ZeroPad(d, 2), ZeroPad(d, 1)} \cup (IF d < 10 THEN {<<" ">> \o ZeroPad(d, 1)} ELSE {})

\* Whether s, which begins with four digits, goes on with a dash, month m in
\* one of its spellings, a dash, and day d in one of its spellings.
SpellsMonthAndDay(s, m, d) ==
    \E ms \in SpellingsOfMonth(m) :
        /\ Len(s) >= 6 + Len(ms)
        /\ SubSeq(s, 5, 5 + Len(ms) + 1) = <<"-">> \o ms \o <<"-">>
        /\ SubSeq(s, 7 + Len(ms), Len(s)) \in SpellingsOfDay(d)

\* Whether s spells, in one of those ways and with a four-digit year, a day
\* of the calendar from year 1 on.
SpellsRealDate(s) ==
    /\ Len(s) >= 5
    /\ \A i \in 1..4 : IsDigit(s[i])
    /\ LET y == DigitsVal(SubSeq(s, 1, 4))
       IN  /\ y >= 1
           /\ \E m \in 1..12 : \E d \in 1..31 :
                /\ d <= (IF m = 2 THEN (IF y % 4 = 0 /\ (y % 100 # 0 \/ y % 400 = 0) THEN 29 ELSE 28)
                         ELSE IF m \in {4, 6, 9, 11} THEN 30 ELSE 31)
                /\ SpellsMonthAndDay(s, m, d)

\* The day a date string names when it spells a real date in one of those
\* ways, as year * 10000 + month * 100 + day.
DayNamed(s) ==
    LET md == CHOOSE p \in (1..12) \X (1..31) : SpellsMonthAndDay(s, p[1], p[2])
    IN  DigitsVal(SubSeq(s, 1, 4)) * 10000 + md[1] * 100 + md[2]

-----------------------------------------------------------------------------
(* Properties.                                                              *)

\* C1: every add_transaction call whose amount parses as a number and whose
\* date is a valid date succeeds, and the ledger then holds exactly one new
\* record, whose amount is the absolute value of the parsed amount and whose
\* id is the number of transactions before the call plus one.
C1_AddStoresOneRecord ==
    [][(/\ call'.op = "add_transaction"
        /\ ParseFloat(call'.args[2]) # NoFloat
        /\ Strptime(call'.args[5]).ok)
       => /\ call'.ok
          /\ \E i \in 1..Len(transactions') :
                /\ RemoveAt(transactions', i) = transactions
                /\ transactions'[i].id = Len(transactions) + 1
                /\ transactions'[i].amount = Magnitude(ParseFloat(call'.args[2]))]_vars

\* C1 happens: a negative amount was added to a ledger that held a record.
C1_Witness ==
    /\ call.op = "add_transaction" /\ call.ok
    /\ call.args[2] = Minus2p5
    /\ Len(transactions) = 2

\* C2: after a successful add_transaction the whole list is ordered by date
\* descending: no record precedes a record with a later date.
C2_SortedByDate ==
    (call.op \in AddOps /\ call.ok)
        => \A i \in 1..Len(transactions) : \A j \in 1..Len(transactions) :
              i < j => CalendarDay(transactions[i].date) >= CalendarDay(transactions[j].date)

\* C3: from an empty ledger on, no two transactions have the same id, and a
\* ledger of n transactions holds exactly the ids 1..n.
C3_IdsAreOneToN ==
    /\ \A i \in 1..Len(transactions) : \A j \in 1..Len(transactions) :
          i # j => transactions[i].id # transactions[j].id
    /\ {transactions[i].id : i \in 1..Len(transactions)} = 1..Len(transactions)

\* C3 happens: two transactions, the newer one sorted first.
C3_Witness == Len(transactions) = 2 /\ transactions[1].id = 2

\* C4 as claimed: a caller can tell a rejected date from a rejected amount,
\* that is, the pair returned for a date that does not parse differs from
\* the pair returned for any amount that does not parse.
C4_ErrorsToldApart ==
    (call.op = "add_transaction" /\ ~call.ok /\ call.where = "strptime")
        => \A in \in AddInputs :
              ParseFloat(in[2]) = NoFloat
                  => AddTransactionResult(in[2], in[5]) # [ok |-> call.ok, msg |-> call.msg]

\* C4 as amended: an amount that does not parse, and a date that does not
\* parse after an amount that does, both return failure with the one message
\* "Invalid amount or date format (YYYY-MM-DD)." and write nothing; the
\* amount is converted before the date, so that with both wrong it is the
\* amount's conversion that raises.
C4_OneErrorForBoth ==
    (/\ call.op = "add_transaction"
     /\ ParseFloat(call.args[2]) = NoFloat \/ ~SpellsRealDate(call.args[5]))
        => /\ ~call.ok
           /\ call.msg = [text |-> "Invalid amount or date format (YYYY-MM-DD).", arg |-> <<>>]
           /\ call.wrote = "none"
           /\ call.exc = "none"
           /\ call.where = (IF ParseFloat(call.args[2]) = NoFloat THEN "float" ELSE "strptime")

\* C4 happens: a call with neither an amount nor a date that parses.
C4_Witness ==
    /\ call.op = "add_transaction"
    /\ ParseFloat(call.args[2]) = NoFloat
    /\ ~SpellsRealDate(call.args[5])

\* C5 as claimed: a date string is accepted only in zero-padded YYYY-MM-DD
\* form, and the date stored is the caller's string unchanged.
C5_StoredDateIsInput ==
    (call.op = "add_transaction" /\ call.ok)
        => /\ ZeroPaddedForm(call.args[5])
           /\ Newest(transactions).date = call.args[5]

\* C5 as amended: a date string is accepted exactly when it is a four-digit
\* year from 0001 on, a dash, a month with or without its leading zero, a
\* dash and a day with or without its leading zero (or with a space for it),
\* naming a real calendar date; any other date string returns failure and
\* leaves ledger and file as they were.  The date stored is the date read,
\* written again with month and day on two digits: it names the same day, and
\* it is the caller's string when that string is zero-padded and its year is
\* written as the C library writes it (1000 or later, or a library that pads).
C5_DateReadThenRewritten ==
    [][(call'.op = "add_transaction" /\ ParseFloat(call'.args[2]) # NoFloat)
       => IF SpellsRealDate(call'.args[5])
          THEN /\ call'.ok
               /\ Len(transactions') = Len(transactions) + 1
               /\ LET stored == Newest(transactions').date
                      given == call'.args[5]
                  IN  /\ TwoDigitMonthAndDay(stored)
                      /\ CalendarDay(stored) = DayNamed(given)
                      /\ (ZeroPaddedForm(given) /\ (strftime_pads \/ given[1] # "0"))
                            => stored = given
                      /\ strftime_pads => ZeroPaddedForm(stored)
          ELSE /\ ~call'.ok
               /\ transactions' = transactions
               /\ file' = file]_vars

\* C5 happens: a date written without leading zeros was stored.
C5_Witness ==
    /\ call.op = "add_transaction" /\ call.ok
    /\ call.args[5] = Jan5Short
    /\ Newest(transactions).date = Jan5

\* C6: every transaction stored in the ledger has an amount strictly greater
\* than zero.
C6_AmountsPositive ==
    \A i \in 1..Len(transactions) : FloatGreater(transactions[i].amount, Fin(0))

\* C7 as claimed: every transaction stored has type income or expense,
\* whatever the arguments of add_transaction.
C7_TypesInEnum ==
    \A i \in 1..Len(transactions) : transactions[i].type \in {Expense, Income}

\* C7 as amended: add_transaction stores the type it is given, unchanged and
\* unchecked; every transaction stored through the form's submit_transaction
\* has type income or expense.
C7_TypeIsArgument ==
    (call.op \in AddOps /\ call.ok)
        => /\ Newest(transactions).type = call.args[1]
           /\ call.op = "submit_transaction"
                 => Newest(transactions).type \in {Expense, Income}

\* C7 happens: the form stored an income.
C7_Witness ==
    /\ call.op = "submit_transaction" /\ call.ok
    /\ Newest(transactions).type = Income

\* C8: across every operation on the ledger a transaction in it stays there
\* with all its fields unchanged; the length grows by exactly one on each
\* successful add_transaction and by zero on every other operation, a
\* restart of the program included.
C8_NeverRemoved ==
    [][/\ \A i \in 1..Len(transactions) :
             \E j \in 1..Len(transactions') : transactions'[j] = transactions[i]
       /\ Len(transactions') =
             Len(transactions) + (IF call'.op \in AddOps /\ call'.ok THEN 1 ELSE 0)]_vars

\* C8 happens: an operation other than an add ran on a ledger of two.
C8_Witness ==
    /\ call.op = "set_budget" /\ call.ok
    /\ Len(transactions) = 2

\* Python's == between a value and the value json.load builds from its dump:
\* the two are different objects, so a NaN on either side makes it false.
TransactionEq(a, b) ==
    /\ a.id = b.id /\ a.type = b.type /\ FloatEq(a.amount, b.amount)
    /\ a.category = b.category /\ a.description = b.description /\ a.date = b.date

StateEq(a, b) ==
    /\ Len(a.transactions) = Len(b.transactions)
    /\ \A i \in 1..Len(a.transactions) : TransactionEq(a.transactions[i], b.transactions[i])
    /\ a.categories = b.categories
    /\ DOMAIN a.budgets = DOMAIN b.budgets
    /\ \A c \in DOMAIN a.budgets : FloatEq(a.budgets[c], b.budgets[c])
    /\ a.currency_symbol = b.currency_symbol

\* C9: for any state reached from the defaults through the public
\* operations, saving it and then loading yields a state equal to it.
C9_RoundTrip == StateEq(JsonLoad(JsonDump(Mem)), Mem)

\* C10: after a mutating operation that returned success and whose write of
\* the file succeeded, the document in the file is the whole in-memory state.
C10_FileIsState ==
    (call.op \in MutatingOps /\ call.ok /\ call.wrote = "ok")
        => /\ file.kind = "doc"
           /\ JsonLoad(file.doc) = Mem

\* C10 happens: a write succeeded after an earlier write had failed.
C10_Witness ==
    /\ call.op = "set_budget" /\ call.ok /\ call.wrote = "ok"
    /\ faults = 1
    /\ Len(transactions) = 1

\* The outcomes of a write that failed.
FailedWrites == {"open_fails", "write_fails"}

\* C11: when the write of the file fails with an IO error during a mutating
\* operation, the operation still returns success, no exception reaches the
\* caller, and the in-memory state holds the operation's effect: the new
\* transaction, the new category, the new budget or the new symbol.
C11_FailedWriteStillSucceeds ==
    (call.op \in MutatingOps /\ call.wrote \in FailedWrites)
        => /\ call.ok
           /\ call.exc = "none"
           /\ call.op \in AddOps
                 => /\ transactions # <<>>
                    /\ Newest(transactions).type = call.args[1]
                    /\ Newest(transactions).category = call.args[3]
                    /\ Newest(transactions).description = call.args[4]
           /\ call.op = "add_category"
                 => \E c \in Range(CategoryList(categories, call.args[2])) :
                        Lower(c) = Lower(Strip(call.args[1]))
           /\ call.op = "set_budget"
                 => /\ call.args[1] \in DOMAIN budgets
                    /\ budgets[call.args[1]] = ParseFloat(call.args[2])
           /\ call.op = "set_currency" => currency_symbol = call.args[1]

\* C11 happens: add_category ran while the write of the file failed after
\* open() had truncated it.
C11_Witness ==
    /\ call.op = "add_category"
    /\ call.wrote = "write_fails"
    /\ file.kind = "corrupt"

\* C12: after a failed write the file holds an earlier document of the
\* ledger (it lags; it is not truncated or partially written), so that a
\* later load recovers that earlier state rather than the defaults.
C12_FileLags ==
    (call.op \in MutatingOps /\ call.wrote \in FailedWrites) => file.kind = "doc"

\* C13: load_data returns without raising for every content of the data
\* file.
C13_LoadNeverRaises == call.op = "__init__" => call.exc = "none"

\* The defaults, written out: no transactions, the built-in category lists,
\* no budgets, the symbol $.
IsDefaultState(st) ==
    /\ st.transactions = <<>>
    /\ st.categories = [expense |-> <<Groceries, Rent, Transport, Dining, Utilities, Other>>,
                        income |-> <<Salary, Bonus, Gifts, Other>>]
    /\ st.budgets = <<>>
    /\ st.currency_symbol = <<"$">>

\* C14: whenever load finds the data file absent or unparseable, the
\* resulting in-memory state is the defaults and the file is written anew:
\* when that write succeeds the file then holds those defaults.  This holds
\* of the first run and of every later start.
C14_DefaultsWhenNoDocument ==
    /\ IsDefaultState(Mem)
    /\ call.wrote = "ok" => file = DocFile(JsonDump(Mem))
    /\ [][(call'.op = "__init__" /\ file.kind \in {"absent", "corrupt"})
          => /\ IsDefaultState(Mem')
             /\ call'.wrote # "none"
             /\ call'.wrote = "ok" => file' = DocFile(JsonDump(Mem'))]_vars

\* C14 happens: a start found no document, because an earlier write had
\* failed, and wrote the defaults.
C14_Witness ==
    /\ call.op = "__init__" /\ call.wrote = "ok"
    /\ faults = 1
    /\ file.kind = "doc"

CategoryTypes == {Expense, Income}

\* The list of names of a type, read from the dict.
NamesOf(cats, t) == IF t = Expense THEN cats.expense ELSE cats.income

\* Names that differ at most in letter case.
SameButCase(a, b) == Lower(a) = Lower(b)

\* A name in title case: a letter after a letter is small, any other letter
\* is a capital.
IsTitleCased(s) ==
    \A i \in 1..Len(s) :
        IsCased(s[i]) => IF i > 1 /\ IsCased(s[i - 1]) THEN IsLower(s[i]) ELSE IsUpper(s[i])

\* C16: add_category fails with one message when the trimmed name is empty
\* and with another when the trimmed name is, but for letter case, a name of
\* the list of the given type; in both cases the category lists are
\* unchanged and nothing is written.
C16_EmptyAndDuplicateRejected ==
    [][call'.op = "add_category"
       => LET name == Strip(call'.args[1])
              t == call'.args[2]
              rejected(text) ==
                  /\ ~call'.ok
                  /\ call'.msg = [text |-> text, arg |-> <<>>]
                  /\ call'.exc = "none"
                  /\ call'.wrote = "none"
                  /\ categories' = categories
                  /\ file' = file
          IN  /\ name = <<>> => rejected("Category name cannot be empty.")
              /\ (/\ name # <<>>
                  /\ t \in CategoryTypes
                  /\ \E c \in Range(NamesOf(categories, t)) : SameButCase(c, name))
                    => rejected("Category already exists.")]_vars

\* C16 happens: a name was rejected that differs in case and by a space
\* from a name added before.
C16_Witness ==
    /\ call.op = "add_category" /\ ~call.ok
    /\ call.args = <<<<"P", "E", "T", "S", " ">>, Expense>>
    /\ call.msg.text = "Category already exists."

\* C17: a successful add_category(name, type) puts the trimmed, title-cased
\* name at the end of that type's list, keeps every entry that was there in
\* its place, and leaves the other type's list unchanged.
C17_AppendedToOneList ==
    [][(call'.op = "add_category" /\ call'.ok)
       => LET t == call'.args[2]
              other == IF t = Expense THEN Income ELSE Expense
              before == NamesOf(categories, t)
              after == NamesOf(categories', t)
          IN  /\ t \in CategoryTypes
              /\ Len(after) = Len(before) + 1
              /\ SubSeq(after, 1, Len(before)) = before
              /\ IsTitleCased(after[Len(after)])
              /\ SameButCase(after[Len(after)], Strip(call'.args[1]))
              /\ NamesOf(categories', other) = NamesOf(categories, other)]_vars

\* C17 happens: a name was added to the income list that the expense list
\* already held.
C17_Witness ==
    /\ call.op = "add_category" /\ call.ok
    /\ call.args[2] = Income
    /\ Pets \in Range(categories.expense)
    /\ categories.income[Len(categories.income)] = Pets

\* C18: from the default category lists on, neither of the two lists holds
\* a name twice.
C18_NoRepeatedName ==
    \A list \in {categories.expense, categories.income} :
        \A i \in 1..Len(list) : \A j \in 1..Len(list) : list[i] = list[j] => i = j

\* C18 happens: a name was offered again for a list that had grown.
C18_Witness ==
    /\ call.op = "add_category" /\ ~call.ok
    /\ call.args = <<<<"p", "e", "t", "s">>, Expense>>
    /\ Len(categories.expense) = 7

\* A float below zero.
BelowZero(x) == x.k \in {"fin", "inf"} /\ x.v < 0

\* C19: set_budget fails with one message when the amount is no number and
\* with another when it is a number below zero; in both cases the budget
\* table is unchanged and nothing is written.
C19_BadBudgetRejected ==
    [][call'.op = "set_budget"
       => LET x == ParseFloat(call'.args[2])
              rejected(text) ==
                  /\ ~call'.ok
                  /\ call'.msg = [text |-> text, arg |-> <<>>]
                  /\ call'.exc = "none"
                  /\ call'.wrote = "none"
                  /\ budgets' = budgets
                  /\ file' = file
          IN  /\ x = NoFloat => rejected("Invalid amount.")
              /\ (x # NoFloat /\ BelowZero(x)) => rejected("Budget amount cannot be negative.")]_vars

\* C19 happens: minus infinity was refused for a category that has a budget.
C19_Witness ==
    /\ call.op = "set_budget" /\ ~call.ok
    /\ call.args[2] = <<"-", "i", "n", "f">>
    /\ Rent \in DOMAIN budgets

\* C20: after a successful set_budget(category, amount), get_budgets maps
\* the category to the parsed amount, whatever it held before, and every
\* other category to the budget it had; no operation removes a key from the
\* budget table.
C20_BudgetSetAndKept ==
    [][/\ DOMAIN GetBudgets(budgets) \subseteq DOMAIN GetBudgets(budgets')
       /\ (call'.op = "set_budget" /\ call'.ok)
            => LET category == call'.args[1]
               IN  /\ DOMAIN GetBudgets(budgets') = DOMAIN GetBudgets(budgets) \cup {category}
                   /\ GetBudgets(budgets')[category] = ParseFloat(call'.args[2])
                   /\ \A c \in DOMAIN budgets \ {category} :
                         GetBudgets(budgets')[c] = budgets[c]]_vars

\* C20 happens: a budget was set anew while another category had one.
C20_Witness ==
    /\ call.op = "set_budget" /\ call.ok
    /\ call.args = <<Rent, <<"5", "0", "0">>>>
    /\ Dining \in DOMAIN budgets
    /\ budgets[Rent] = Fin(500 * Scale)

\* x >= 0 as Python evaluates it: false for NaN.
AtLeastZero(x) == FloatGreater(x, Fin(0)) \/ FloatEq(x, Fin(0))

\* C21: from the empty budget table on, whatever amounts set_budget is
\* called with, every value in the budget table is greater than or equal to
\* zero.
C21_BudgetsNonNegative ==
    \A c \in DOMAIN budgets : AtLeastZero(budgets[c])

\* Whether the record t is dated in the year and month the clock reads.
InMonth(t, now) == CalendarDay(t.date) \div 100 = now.y * 100 + now.m

\* The positions of the records of one type dated in the current month.
OfMonth(list, now, trans_type) ==
    {i \in 1..Len(list) : list[i].type = trans_type /\ InMonth(list[i], now)}

\* The sum of the amounts at the positions I, none of which is below zero:
\* NaN when one of them is NaN, else infinite when one of them is, else the
\* sum of the finite values.
RECURSIVE FiniteSum(_, _)
FiniteSum(list, I) ==
    IF I = {} THEN 0
    ELSE LET i == CHOOSE j \in I : TRUE
         IN  list[i].amount.v + FiniteSum(list, I \ {i})

Total(list, I) ==
    IF \E i \in I : list[i].amount.k = "nan" THEN NaN
    ELSE IF \E i \in I : list[i].amount.k = "inf" THEN Inf(1)
    ELSE Fin(FiniteSum(list, I))

\* C22: get_monthly_report_data returns as total_income and total_expense
\* the sums of the amounts of the income and of the expense transactions
\* dated in the current year and month, and as net_savings the first minus
\* the second; transactions of other months and years do not count.
C22_TotalsOfTheMonth ==
    call.op = "get_monthly_report_data"
        => LET now == call.args[1]
               r == call.value
           IN  /\ r.total_income = Total(transactions, OfMonth(transactions, now, Income))
               /\ r.total_expense = Total(transactions, OfMonth(transactions, now, Expense))
               /\ r.net_savings = FloatSub(r.total_income, r.total_expense)

\* C22 happens: a report with savings below zero, over a ledger with a
\* transaction of another month.
C22_Witness ==
    /\ call.op = "get_monthly_report_data"
    /\ call.value.net_savings = Fin(-(5 * Scale) \div 2)
    /\ \E i \in 1..Len(transactions) : ~InMonth(transactions[i], call.args[1])

\* C23: spending_by_category has a key for exactly the categories with an
\* expense transaction dated in the current month, each mapped to the sum
\* of those expenses; income and other months add nothing, and a category
\* without an expense this month has no key.
C23_SpendingByCategory ==
    call.op = "get_monthly_report_data"
        => LET now == call.args[1]
               spending == call.value.spending_by_category
               expenses == OfMonth(transactions, now, Expense)
           IN  /\ DOMAIN spending = {transactions[i].category : i \in expenses}
               /\ \A c \in DOMAIN spending :
                     spending[c] =
                         Total(transactions, {i \in expenses : transactions[i].category = c})

\* C23 happens: a report over an income and an expense of the month.
C23_Witness ==
    /\ call.op = "get_monthly_report_data"
    /\ OfMonth(transactions, call.args[1], Income) # {}
    /\ DOMAIN call.value.spending_by_category = {Rent}

\* Python's == between the reports of two calls: the numbers are different
\* objects, so a NaN on either side makes it false.
ReportEq(a, b) ==
    /\ a.month_name = b.month_name
    /\ FloatEq(a.total_income, b.total_income)
    /\ FloatEq(a.total_expense, b.total_expense)
    /\ FloatEq(a.net_savings, b.net_savings)
    /\ DOMAIN a.spending_by_category = DOMAIN b.spending_by_category
    /\ \A c \in DOMAIN a.spending_by_category :
          FloatEq(a.spending_by_category[c], b.spending_by_category[c])

\* C24: get_monthly_report_data changes nothing (transactions, categories,
\* budgets, the currency symbol and the file are as before), and another
\* call on the same ledger at the same date returns an equal report.
C24_ReportIsPure ==
    [][call'.op = "get_monthly_report_data"
       => /\ UNCHANGED <<transactions, categories, budgets, currency_symbol, file>>
          /\ ReportEq(call'.value,
                      MonthlyReport(transactions', call'.args[1], strftime_pads'))]_vars

\* C25: each mutating operation changes only its own part of the state:
\* add_transaction leaves categories, budgets and the symbol as they were,
\* add_category leaves transactions, budgets and the symbol, set_budget
\* leaves transactions, categories and the symbol, and set_currency leaves
\* transactions, categories and every stored amount; this also for a
\* category outside the lists and a symbol outside the table.
C25_OwnPartOnly ==
    [][/\ call'.op = "add_transaction" => UNCHANGED <<categories, budgets, currency_symbol>>
       /\ call'.op = "add_category" => UNCHANGED <<transactions, budgets, currency_symbol>>
       /\ call'.op = "set_budget" => UNCHANGED <<transactions, categories, currency_symbol>>
       /\ call'.op = "set_currency" => UNCHANGED <<transactions, categories, budgets>>]_vars

\* C25 happens: the symbol was set to one outside the table while the ledger
\* held a transaction and a budget, both for a category outside the lists.
C25_Witness ==
    /\ call.op = "set_currency"
    /\ currency_symbol \notin CurrencySymbols
    /\ Pets \in DOMAIN budgets
    /\ \E i \in 1..Len(transactions) : transactions[i].category = Pets
    /\ Pets \notin Range(categories.expense)

\* A text of digits, a point and two digits, after a minus sign or none.
IsTwoDecimals(s) ==
    /\ Len(s) >= 4
    /\ s[Len(s) - 2] = "."
    /\ IsDigits(SubSeq(s, Len(s) - 1, Len(s)))
    /\ LET ip == SubSeq(s, 1, Len(s) - 3)
           digits == IF Head(ip) = "-" THEN Tail(ip) ELSE ip
       IN  digits # <<>> /\ IsDigits(digits)

\* The hundredths a text of that form names, without its sign.
HundredthsNamed(s) ==
    LET ip == SubSeq(s, 1, Len(s) - 3)
        digits == IF Head(ip) = "-" THEN Tail(ip) ELSE ip
    IN  DigitsVal(digits) * 100 + DigitsVal(SubSeq(s, Len(s) - 1, Len(s)))

\* Whether the text s is the finite float x rounded to two decimals: the
\* hundredth named is a nearest one, and the minus sign is there exactly
\* for an x below zero.
IsRoundedTo2(s, x) ==
    LET unit == Scale \div 100
        mag == IF x.v < 0 THEN -x.v ELSE x.v
        off == HundredthsNamed(s) * unit - mag
    IN  /\ IsTwoDecimals(s)
        /\ 2 * (IF off < 0 THEN -off ELSE off) <= unit
        /\ (Head(s) = "-") <=> (x.v < 0)

\* The text that follows the symbol in what format_currency returned.
AfterSymbol(text, symbol) == SubSeq(text, Len(symbol) + 1, Len(text))

\* C26: format_currency(amount) returns the selected symbol, then at once
\* the amount rounded to exactly two decimals, without thousands separator
\* and with the minus sign of a negative amount after the symbol; it changes
\* no state.
C26_TwoDecimalsAlways ==
    [][call'.op = "format_currency"
       => /\ UNCHANGED <<transactions, categories, budgets, currency_symbol, file>>
          /\ StartsWith(call'.value.text, currency_symbol)
          /\ IsRoundedTo2(AfterSymbol(call'.value.text, currency_symbol), call'.args[1])]_vars

\* C26 as the code has it: the same for an amount that is finite; for an
\* infinite amount and for NaN the symbol is followed by inf, -inf or nan.
C26_TwoDecimalsIfFinite ==
    [][call'.op = "format_currency"
       => LET amount == call'.args[1]
              rest == AfterSymbol(call'.value.text, currency_symbol)
          IN  /\ UNCHANGED <<transactions, categories, budgets, currency_symbol, file>>
              /\ StartsWith(call'.value.text, currency_symbol)
              /\ amount.k = "fin" => IsRoundedTo2(rest, amount)
              /\ amount.k = "inf" =>
                    rest = (IF amount.v < 0 THEN <<"-">> ELSE <<>>) \o <<"i", "n", "f">>
              /\ amount.k = "nan" => rest = <<"n", "a", "n">>]_vars

\* C26 happens: an amount below zero with a third decimal was formatted
\* under a symbol other than the first.
C26_Witness ==
    /\ call.op = "format_currency"
    /\ call.args[1] = Fin(-12345)
    /\ call.value.text = <<"U+20AC", "-", "1", "2", ".", "3", "5">>

\* C27: add_transaction, add_category and set_budget return a pair of
\* success flag and message for every input; no exception reaches the
\* caller.
C27_NeverRaises ==
    call.op \in {"add_transaction", "add_category", "set_budget"} => call.exc = "none"

\* C28: whenever add_transaction returns failure, for whatever reason, the
\* catch-all path after a failed sort or save included, the transaction list
\* and the file are as they were before the call.
C28_FailureChangesNothing ==
    [][(call'.op = "add_transaction" /\ ~call'.ok)
       => transactions' = transactions /\ file' = file]_vars

\* C29: pressing Set Budget with an expense category selected and a valid
\* amount that is not negative entered calls set_budget with the two, so
\* that the budget table then holds the amount for the category and the
\* status label shows the message of set_budget.
C29_ButtonSetsBudget ==
    [][call'.op = "set_new_budget"
       => LET selected == call'.args[1]
              x == ParseFloat(call'.args[2])
          IN  (selected \in Range(categories.expense) /\ x # NoFloat /\ AtLeastZero(x))
                 => /\ call'.exc = "none"
                    /\ selected \in DOMAIN budgets'
                    /\ budgets'[selected] = x
                    /\ call'.msg = Msg("Budget for {} set to {}.",
                                       <<selected, FormatCurrency(currency_symbol, x)>>)]_vars

\* C30: the dashboard draws the pie chart, one wedge and one legend entry
\* for each category, exactly when the month's spending_by_category has a
\* key, and no wedge when it has none.
C30_PieWhenSpending ==
    call.op = "show_dashboard_frame"
        => /\ call.value.chart.wedges = DOMAIN call.value.spending
           /\ call.value.chart.legend = DOMAIN call.value.spending

====
